---- MODULE Spec2Model ----
(***************************************************************************)
(* Model of playground/cpp/sample.cpp: the Stack<T> class template, the    *)
(* constexpr factorial, is_palindrome and the demonstration main.          *)
(*                                                                         *)
(* The specifications share the module's variables:                        *)
(*   Spec         a client making arbitrary calls on a Stack object         *)
(*   SpecDemo     main() beside a driver that pushes n values and then     *)
(*                pops n times (SpecDemoFair adds main's progress)         *)
(*   SpecFact     the recursion of factorial on a drawn argument           *)
(*   SpecPal      is_palindrome applied to a drawn string                  *)
(* A component that a specification does not run stays in its idle state.  *)
(***************************************************************************)
EXTENDS Integers, Sequences, FiniteSets, TLC

\* ------------------------------------------------------------------ bounds

\* Element values pushed by the clients are 1..MaxValue.
MaxValue == 2
\* Most push calls one client makes in a run, on all its objects together.
MaxPushes == 4
\* Largest argument drawn for factorial.
MaxN == 70
\* Longest string drawn for is_palindrome.
MaxLen == 4

Values == 1..MaxValue

\* ------------------------------------------------------------------ state

VARIABLES
    data_,       \* Stack::data_ of the client's Stack object
    other_data_, \* Stack::data_ of a second Stack object the client moves to and from
    other_pushes,\* number of push calls made on the second object
    moved,       \* whether a move has read or written the client's Stack object
    call,        \* the client's last call on it and what it returned
    prev_call,   \* the call before that
    pushes,      \* number of push calls made
    pops,        \* number of pop calls that returned a value
    pc,          \* main: the statement to execute next
    stack,       \* main: data_ of the local `stack`
    out,         \* main: lines written to std::cout
    exit_code,   \* main: return value, -1 while running
    drv_data,    \* driver: data_ of its Stack object
    drv_phase,   \* driver: "pushing", "popping" or "failed"
    pushed,      \* driver: the values pushed, in order
    popped,      \* driver: the values the pops returned, in order
    n,           \* factorial: the argument of the outermost call
    fact_pc,     \* factorial: "idle", "call", "return" or "done"
    fact_n,      \* factorial: the parameter n of the call being entered
    fact_frames, \* factorial: the parameter n of each suspended call, outermost first
    fact_ret,    \* factorial: the value returned by the last call that returned
    str,         \* is_palindrome: the argument
    pal_pc,      \* is_palindrome: "idle", "call" or "done"
    pal_ret      \* is_palindrome: the value returned

clientVars == <<data_, other_data_, other_pushes, moved, call, prev_call, pushes, pops>>
mainVars   == <<pc, stack, out, exit_code>>
driverVars == <<drv_data, drv_phase, pushed, popped>>
factVars   == <<n, fact_pc, fact_n, fact_frames, fact_ret>>
palVars    == <<str, pal_pc, pal_ret>>
vars == <<data_, other_data_, other_pushes, moved, call, prev_call, pushes, pops, pc, stack, out, exit_code,
          drv_data, drv_phase, pushed, popped, n, fact_pc, fact_n, fact_frames,
          fact_ret, str, pal_pc, pal_ret>>

\* ------------------------------------------------------------------ Stack<T>
\* The member functions, as operators on the value d of data_.  A member that
\* can throw returns a record: threw, the value returned (0 when it threw) and
\* data_ afterwards.

\* A push that inserts at the front of data_.
push_front(d, value) == <<value>> \o d

\* void push(T value) { data_.push_back(std::move(value)); }
push(d, value) == Append(d, value)

\* An empty() that is off by one element.
empty_off_by_one(d) == Len(d) <= 1

\* bool empty() const noexcept { return data_.empty(); }
empty(d) == Len(d) = 0

\* size_t size() const noexcept { return data_.size(); }
size(d) == Len(d)

\* A pop that takes the oldest element instead of the newest.
pop_fifo(d) ==
    IF Len(d) = 0
    THEN [threw |-> TRUE, value |-> 0, data |-> d]
    ELSE [threw |-> FALSE, value |-> d[1], data |-> SubSeq(d, 2, Len(d))]

\* A pop that returns data_.back() and forgets the pop_back().
pop_keep(d) ==
    IF Len(d) = 0
    THEN [threw |-> TRUE, value |-> 0, data |-> d]
    ELSE [threw |-> FALSE, value |-> d[Len(d)], data |-> d]

\* A pop without the emptiness check, returning a value-initialised T on an
\* empty data_.
pop_unchecked(d) ==
    IF Len(d) = 0
    THEN [threw |-> FALSE, value |-> 0, data |-> d]
    ELSE [threw |-> FALSE, value |-> d[Len(d)], data |-> SubSeq(d, 1, Len(d) - 1)]

\* T pop(): throws std::runtime_error on an empty data_, else moves data_.back()
\* out, pop_back()s and returns it.
pop(d) ==
    IF Len(d) = 0
    THEN [threw |-> TRUE, value |-> 0, data |-> d]
    ELSE [threw |-> FALSE, value |-> d[Len(d)], data |-> SubSeq(d, 1, Len(d) - 1)]

\* A top that removes the element it returns.
top_removes(d) ==
    IF Len(d) = 0
    THEN [threw |-> TRUE, value |-> 0, data |-> d]
    ELSE [threw |-> FALSE, value |-> d[Len(d)], data |-> SubSeq(d, 1, Len(d) - 1)]

\* const T& top() const: throws on an empty data_, else returns data_.back().
top(d) ==
    IF Len(d) = 0
    THEN [threw |-> TRUE, value |-> 0, data |-> d]
    ELSE [threw |-> FALSE, value |-> d[Len(d)], data |-> d]

\* Stack(Stack&&) noexcept = default: data_ is move-constructed, which leaves
\* the source vector empty.
move_construct(src) == [dest |-> src, source |-> <<>>]

\* Stack& operator=(Stack&&) noexcept = default, between two objects: data_ is
\* move-assigned; what dst held is destroyed and, with std::allocator, the
\* source vector gives its storage away and is left empty.
move_assign(dst, src) == [dest |-> src, source |-> <<>>]

\* The same operator with both sides the same object: the standard library
\* leaves the vector valid but unspecified; the implementations either keep
\* the elements (the self-assignment is detected) or end with none.
move_assign_self(d) == {d, <<>>}

\* ------------------------------------------------------------------ client
\* A caller that holds a Stack<T> and a second one to move to and from, calls
\* any member in any order and catches the exception of pop and top.  `call` records the last call: op, the argument
\* (0 when none), whether it threw, the element returned (value), the size
\* returned (count), the bool returned (flag) and data_ before the call.

NoCall == [op |-> "none", arg |-> 0, threw |-> FALSE, value |-> 0, count |-> 0,
           flag |-> FALSE, before |-> <<>>]

InitClient ==
    /\ data_ = <<>>
    /\ other_data_ = <<>>
    /\ other_pushes = 0
    /\ moved = FALSE
    /\ call = NoCall
    /\ prev_call = NoCall
    /\ pushes = 0
    /\ pops = 0

Push(v) ==
    /\ pushes + other_pushes < MaxPushes
    /\ data_' = push(data_, v)
    /\ call' = [op |-> "push", arg |-> v, threw |-> FALSE, value |-> 0,
                count |-> 0, flag |-> FALSE, before |-> data_]
    /\ prev_call' = call
    /\ pushes' = pushes + 1
    /\ UNCHANGED <<pops, other_data_, other_pushes, moved>>

ClientPush == \E v \in Values : Push(v)

ClientPop ==
    LET r == pop(data_) IN
    /\ data_' = r.data
    /\ call' = [op |-> "pop", arg |-> 0, threw |-> r.threw, value |-> r.value,
                count |-> 0, flag |-> FALSE, before |-> data_]
    /\ prev_call' = call
    /\ pops' = IF r.threw THEN pops ELSE pops + 1
    /\ UNCHANGED <<pushes, other_data_, other_pushes, moved>>

ClientTop ==
    LET r == top(data_) IN
    /\ data_' = r.data
    /\ call' = [op |-> "top", arg |-> 0, threw |-> r.threw, value |-> r.value,
                count |-> 0, flag |-> FALSE, before |-> data_]
    /\ prev_call' = call
    /\ UNCHANGED <<pushes, pops, other_data_, other_pushes, moved>>

ClientEmpty ==
    /\ call' = [op |-> "empty", arg |-> 0, threw |-> FALSE, value |-> 0,
                count |-> 0, flag |-> empty(data_), before |-> data_]
    /\ prev_call' = call
    /\ UNCHANGED <<data_, pushes, pops, other_data_, other_pushes, moved>>

ClientSize ==
    /\ call' = [op |-> "size", arg |-> 0, threw |-> FALSE, value |-> 0,
                count |-> size(data_), flag |-> FALSE, before |-> data_]
    /\ prev_call' = call
    /\ UNCHANGED <<data_, pushes, pops, other_data_, other_pushes, moved>>

\* t.push(v) on the second object; the record of the calls on the first one
\* is left as it is.
PushOther(v) ==
    /\ pushes + other_pushes < MaxPushes
    /\ other_data_' = push(other_data_, v)
    /\ other_pushes' = other_pushes + 1
    /\ UNCHANGED <<data_, moved, call, prev_call, pushes, pops>>

ClientPushOther == \E v \in Values : PushOther(v)

\* The record of a move: no argument and nothing returned.
MoveCall(name) ==
    [op |-> name, arg |-> 0, threw |-> FALSE, value |-> 0, count |-> 0,
     flag |-> FALSE, before |-> data_]

\* Stack<T> t(std::move(s)); t takes the place of the second object.
ClientMoveConstruct ==
    LET r == move_construct(data_) IN
    /\ other_data_' = r.dest
    /\ data_' = r.source
    /\ moved' = TRUE
    /\ call' = MoveCall("move_construct")
    /\ prev_call' = call
    /\ UNCHANGED <<pushes, pops, other_pushes>>

\* t = std::move(s);
ClientMoveAssignTo ==
    LET r == move_assign(other_data_, data_) IN
    /\ other_data_' = r.dest
    /\ data_' = r.source
    /\ moved' = TRUE
    /\ call' = MoveCall("move_assign_to")
    /\ prev_call' = call
    /\ UNCHANGED <<pushes, pops, other_pushes>>

\* s = std::move(t);
ClientMoveAssignFrom ==
    LET r == move_assign(data_, other_data_) IN
    /\ data_' = r.dest
    /\ other_data_' = r.source
    /\ moved' = TRUE
    /\ call' = MoveCall("move_assign_from")
    /\ prev_call' = call
    /\ UNCHANGED <<pushes, pops, other_pushes>>

\* s = Stack<T>(); the source is an empty temporary, destroyed afterwards.
ClientAssignTemporary ==
    LET r == move_assign(data_, <<>>) IN
    /\ data_' = r.dest
    /\ moved' = TRUE
    /\ call' = MoveCall("assign_temporary")
    /\ prev_call' = call
    /\ UNCHANGED <<other_data_, other_pushes, pushes, pops>>

\* s = std::move(s);
ClientMoveAssignSelf ==
    /\ data_' \in move_assign_self(data_)
    /\ moved' = TRUE
    /\ call' = MoveCall("move_assign_self")
    /\ prev_call' = call
    /\ UNCHANGED <<other_data_, other_pushes, pushes, pops>>

\* ------------------------------------------------------------------ idle parts

IdleMain   == pc = "idle" /\ stack = <<>> /\ out = <<>> /\ exit_code = -1
IdleDriver == drv_data = <<>> /\ drv_phase = "idle" /\ pushed = <<>> /\ popped = <<>>
IdleFact   ==
    n = <<>> /\ fact_pc = "idle" /\ fact_n = <<>> /\ fact_frames = <<>> /\ fact_ret = <<>>
IdlePal    == str = <<>> /\ pal_pc = "idle" /\ pal_ret = FALSE
IdleClient == InitClient

\* ------------------------------------------------------------------ Spec

Init == InitClient /\ IdleMain /\ IdleDriver /\ IdleFact /\ IdlePal

Next ==
    \/ ClientPush /\ UNCHANGED <<mainVars, driverVars, factVars, palVars>>
    \/ ClientPop /\ UNCHANGED <<mainVars, driverVars, factVars, palVars>>
    \/ ClientTop /\ UNCHANGED <<mainVars, driverVars, factVars, palVars>>
    \/ ClientEmpty /\ UNCHANGED <<mainVars, driverVars, factVars, palVars>>
    \/ ClientSize /\ UNCHANGED <<mainVars, driverVars, factVars, palVars>>
    \/ ClientPushOther /\ UNCHANGED <<mainVars, driverVars, factVars, palVars>>
    \/ ClientMoveConstruct /\ UNCHANGED <<mainVars, driverVars, factVars, palVars>>
    \/ ClientMoveAssignTo /\ UNCHANGED <<mainVars, driverVars, factVars, palVars>>
    \/ ClientMoveAssignFrom /\ UNCHANGED <<mainVars, driverVars, factVars, palVars>>
    \/ ClientAssignTemporary /\ UNCHANGED <<mainVars, driverVars, factVars, palVars>>
    \/ ClientMoveAssignSelf /\ UNCHANGED <<mainVars, driverVars, factVars, palVars>>

Spec == Init /\ [][Next]_vars

\* ------------------------------------------------------------------ factorial
\* uint64_t values are sequences of NumLimbs limbs in base LimbBase, least
\* significant limb first, so that the arithmetic keeps its 64-bit width.

Width == 64
LimbBase == 2 ^ 8
NumLimbs == Width \div 8

RECURSIVE ToLimbs(_, _)
ToLimbs(k, cnt) ==
    IF cnt = 0 THEN <<>> ELSE <<k % LimbBase>> \o ToLimbs(k \div LimbBase, cnt - 1)

\* The uint64_t with the value of the natural number k (k below 2^31).
U64(k) == ToLimbs(k, NumLimbs)

\* a <= b on uint64_t: decided at the most significant limb that differs.
RECURSIVE LeqFrom(_, _, _)
LeqFrom(a, b, i) ==
    IF i = 0 THEN TRUE
    ELSE IF a[i] # b[i] THEN a[i] < b[i]
    ELSE LeqFrom(a, b, i - 1)

Leq64(a, b) == LeqFrom(a, b, NumLimbs)

\* a - b on uint64_t (modulo 2^64): limb i onwards with the borrow so far.
RECURSIVE SubFrom(_, _, _, _)
SubFrom(a, b, i, borrow) ==
    IF i > NumLimbs THEN <<>>
    ELSE LET d == a[i] - b[i] - borrow IN
         <<d % LimbBase>> \o SubFrom(a, b, i + 1, IF d < 0 THEN 1 ELSE 0)

Sub64(a, b) == SubFrom(a, b, 1, 0)

\* Column k of the schoolbook product: the sum of a[i] * b[j] over i + j = k + 1.
RECURSIVE Column(_, _, _, _)
Column(a, b, k, i) ==
    IF i > k THEN 0 ELSE a[i] * b[k + 1 - i] + Column(a, b, k, i + 1)

\* a * b on uint64_t (modulo 2^64): the columns above limb NumLimbs are dropped.
RECURSIVE MulFrom(_, _, _, _)
MulFrom(a, b, k, carry) ==
    IF k > NumLimbs THEN <<>>
    ELSE LET s == Column(a, b, k, 1) + carry IN
         <<s % LimbBase>> \o MulFrom(a, b, k + 1, s \div LimbBase)

\* A product computed in 32 bits and widened afterwards.
Mul64_narrow(a, b) ==
    [i \in 1..NumLimbs |-> IF 2 * i <= NumLimbs THEN MulFrom(a, b, 1, 0)[i] ELSE 0]

Mul64(a, b) == MulFrom(a, b, 1, 0)

RECURSIVE factorial(_)

\* constexpr uint64_t factorial(uint64_t n) { return n <= 1 ? 1 : n * factorial(n - 1); }
factorial(m) ==
    IF Leq64(m, U64(1)) THEN U64(1) ELSE Mul64(m, factorial(Sub64(m, U64(1))))

\* The recursion of factorial as the machine runs it: a call with n > 1 suspends
\* on factorial(n - 1) and multiplies when that call has returned.  fact_pc is
\* "call" while calls are entered, "return" while they return, "done" when the
\* outermost call has returned.

\* n <= 1 ? 1 : ... on entry: return 1, or call factorial(n - 1).
FactEnter ==
    /\ fact_pc = "call"
    /\ IF Leq64(fact_n, U64(1))
       THEN /\ fact_ret' = U64(1)
            /\ fact_pc' = "return"
            /\ UNCHANGED <<fact_n, fact_frames>>
       ELSE /\ fact_frames' = Append(fact_frames, fact_n)
            /\ fact_n' = Sub64(fact_n, U64(1))
            /\ UNCHANGED <<fact_pc, fact_ret>>
    /\ UNCHANGED n

\* n * factorial(n - 1) in the innermost suspended call, which then returns.
FactResume ==
    /\ fact_pc = "return"
    /\ fact_frames # <<>>
    /\ fact_ret' = Mul64(fact_frames[Len(fact_frames)], fact_ret)
    /\ fact_frames' = SubSeq(fact_frames, 1, Len(fact_frames) - 1)
    /\ UNCHANGED <<n, fact_pc, fact_n>>

\* The outermost call has returned to its caller.
FactDone ==
    /\ fact_pc = "return"
    /\ fact_frames = <<>>
    /\ fact_pc' = "done"
    /\ UNCHANGED <<n, fact_n, fact_frames, fact_ret>>

\* ------------------------------------------------------------------ is_palindrome
\* A std::string is the sequence of its characters' codes (ASCII, "C" locale).

\* std::isalnum(c)
isalnum(c) == c \in (48..57) \cup (65..90) \cup (97..122)

\* std::tolower(c)
tolower(c) == IF c \in 65..90 THEN c + 32 ELSE c

\* std::reverse(first, last), as the reversed copy
reverse(s) == [i \in 1..Len(s) |-> s[Len(s) + 1 - i]]

\* A comparison that forgets the case folding.
same_char(a, b) == a = b

\* The comparison lambda of is_palindrome.
same_lower(a, b) == tolower(a) = tolower(b)

\* bool is_palindrome(const std::string& str): copy_if keeps the characters that
\* isalnum accepts, in order; equal compares cleaned with reversed position by
\* position, over the length of cleaned.
is_palindrome(s) ==
    LET cleaned == SelectSeq(s, isalnum)
        reversed == reverse(cleaned)
    IN \A i \in 1..Len(cleaned) : same_lower(cleaned[i], reversed[i])

\* "A man a plan a canal Panama"
PanamaText ==
    <<65, 32, 109, 97, 110, 32, 97, 32, 112, 108, 97, 110, 32, 97, 32,
      99, 97, 110, 97, 108, 32, 80, 97, 110, 97, 109, 97>>

\* "hello"
HelloText == <<104, 101, 108, 108, 111>>

\* ------------------------------------------------------------------ main

InitMain == pc = "push1" /\ stack = <<>> /\ out = <<>> /\ exit_code = -1

\* stack.push(1); stack.push(2); stack.push(3);
MainPush1 ==
    /\ pc = "push1"
    /\ stack' = push(stack, 1)
    /\ pc' = "push2"
    /\ UNCHANGED <<out, exit_code, factVars>>

MainPush2 ==
    /\ pc = "push2"
    /\ stack' = push(stack, 2)
    /\ pc' = "push3"
    /\ UNCHANGED <<out, exit_code, factVars>>

MainPush3 ==
    /\ pc = "push3"
    /\ stack' = push(stack, 3)
    /\ pc' = "print_size"
    /\ UNCHANGED <<out, exit_code, factVars>>

\* std::cout << "Stack size: " << stack.size() << std::endl;
MainPrintSize ==
    /\ pc = "print_size"
    /\ out' = Append(out, <<"Stack size: ", size(stack)>>)
    /\ pc' = "print_top"
    /\ UNCHANGED <<stack, exit_code, factVars>>

\* std::cout << "Top element: " << stack.top() << std::endl;
\* main catches nothing: an exception ends the program in std::terminate.
MainPrintTop ==
    /\ pc = "print_top"
    /\ LET r == top(stack) IN
        IF r.threw
        THEN pc' = "terminated" /\ UNCHANGED <<stack, out, exit_code, factVars>>
        ELSE /\ out' = Append(out, <<"Top element: ", r.value>>)
             /\ stack' = r.data
             /\ pc' = "loop"
             /\ UNCHANGED <<exit_code, factVars>>

\* while (!stack.empty())
MainLoopTest ==
    /\ pc = "loop"
    /\ pc' = IF ~empty(stack) THEN "pop" ELSE "factorial"
    /\ UNCHANGED <<stack, out, exit_code, factVars>>

\* std::cout << "Popped: " << stack.pop() << std::endl;
MainLoopPop ==
    /\ pc = "pop"
    /\ LET r == pop(stack) IN
        IF r.threw
        THEN pc' = "terminated" /\ UNCHANGED <<stack, out, exit_code, factVars>>
        ELSE /\ out' = Append(out, <<"Popped: ", r.value>>)
             /\ stack' = r.data
             /\ pc' = "loop"
             /\ UNCHANGED <<exit_code, factVars>>

\* sample::factorial(5) is called ...
MainCallFactorial ==
    /\ pc = "factorial"
    /\ n' = U64(5)
    /\ fact_n' = U64(5)
    /\ fact_frames' = <<>>
    /\ fact_ret' = <<>>
    /\ fact_pc' = "call"
    /\ pc' = "in_factorial"
    /\ UNCHANGED <<stack, out, exit_code>>

\* ... runs ...
MainInFactorial ==
    /\ pc = "in_factorial"
    /\ FactEnter \/ FactResume \/ FactDone
    /\ UNCHANGED mainVars

\* ... and std::cout << "5! = " << (its value) << std::endl;
MainPrintFactorial ==
    /\ pc = "in_factorial"
    /\ fact_pc = "done"
    /\ out' = Append(out, <<"5! = ", fact_ret>>)
    /\ pc' = "palindrome"
    /\ UNCHANGED <<stack, exit_code, factVars>>

\* std::cout << "\"" << test << "\" is " << (is_palindrome(test) ? "" : "not ")
\*           << "a palindrome" << std::endl;
MainPalindrome ==
    /\ pc = "palindrome"
    /\ out' = Append(out, <<"\"A man a plan a canal Panama\" is ",
                            IF is_palindrome(PanamaText) THEN "" ELSE "not ",
                            "a palindrome">>)
    /\ pc' = "return"
    /\ UNCHANGED <<stack, exit_code, factVars>>

\* return 0; the local stack is destroyed with what it still holds.
MainReturn ==
    /\ pc = "return"
    /\ exit_code' = 0
    /\ pc' = "done"
    /\ UNCHANGED <<stack, out, factVars>>

MainStep ==
    \/ MainPush1
    \/ MainPush2
    \/ MainPush3
    \/ MainPrintSize
    \/ MainPrintTop
    \/ MainLoopTest
    \/ MainLoopPop
    \/ MainCallFactorial
    \/ MainInFactorial
    \/ MainPrintFactorial
    \/ MainPalindrome
    \/ MainReturn

\* ------------------------------------------------------------------ driver
\* main's use of the stack with the three pushes made any number n of pushes of
\* any values, followed by n pops; the driver catches the exception of pop.

InitDriver ==
    drv_data = <<>> /\ drv_phase = "pushing" /\ pushed = <<>> /\ popped = <<>>

DriverPush(v) ==
    /\ drv_phase = "pushing"
    /\ Len(pushed) < MaxPushes
    /\ drv_data' = push(drv_data, v)
    /\ pushed' = Append(pushed, v)
    /\ UNCHANGED <<drv_phase, popped>>

DriverPushAny == \E v \in Values : DriverPush(v)

DriverStartPops ==
    /\ drv_phase = "pushing"
    /\ drv_phase' = "popping"
    /\ UNCHANGED <<drv_data, pushed, popped>>

DriverPop ==
    /\ drv_phase = "popping"
    /\ Len(popped) < Len(pushed)
    /\ LET r == pop(drv_data) IN
        IF r.threw
        THEN drv_phase' = "failed" /\ UNCHANGED <<drv_data, pushed, popped>>
        ELSE /\ drv_data' = r.data
             /\ popped' = Append(popped, r.value)
             /\ UNCHANGED <<drv_phase, pushed>>

\* A step of main; the other components stand still.
MainNext == MainStep /\ UNCHANGED <<clientVars, driverVars, palVars>>

InitDemo == IdleClient /\ InitMain /\ InitDriver /\ IdleFact /\ IdlePal

NextDemo ==
    \/ MainNext
    \/ DriverPushAny /\ UNCHANGED <<clientVars, mainVars, factVars, palVars>>
    \/ DriverStartPops /\ UNCHANGED <<clientVars, mainVars, factVars, palVars>>
    \/ DriverPop /\ UNCHANGED <<clientVars, mainVars, factVars, palVars>>

SpecDemo == InitDemo /\ [][NextDemo]_vars

\* main is one thread that nothing blocks: each of its statements is executed.
SpecDemoFair == SpecDemo /\ WF_vars(MainNext)

\* ------------------------------------------------------------------ SpecFact

InitFact ==
    /\ n \in {U64(k) : k \in 0..MaxN}
    /\ fact_pc = "call"
    /\ fact_n = n
    /\ fact_frames = <<>>
    /\ fact_ret = <<>>

NextFact ==
    \/ FactEnter /\ UNCHANGED <<clientVars, mainVars, driverVars, palVars>>
    \/ FactResume /\ UNCHANGED <<clientVars, mainVars, driverVars, palVars>>
    \/ FactDone /\ UNCHANGED <<clientVars, mainVars, driverVars, palVars>>

InitSpecFact == IdleClient /\ IdleMain /\ IdleDriver /\ InitFact /\ IdlePal

SpecFact == InitSpecFact /\ [][NextFact]_vars

\* ------------------------------------------------------------------ SpecPal

\* 'A', 'a', 'b', 'Z', 'z', '1', ' ', ','
Alphabet == {65, 97, 98, 90, 122, 49, 32, 44}

Strings == UNION {[1..k -> Alphabet] : k \in 0..MaxLen}

InitPal ==
    /\ str \in Strings \cup {PanamaText, HelloText}
    /\ pal_pc = "call"
    /\ pal_ret = FALSE

CallIsPalindrome ==
    /\ pal_pc = "call"
    /\ pal_ret' = is_palindrome(str)
    /\ pal_pc' = "done"
    /\ UNCHANGED str

NextPal ==
    CallIsPalindrome /\ UNCHANGED <<clientVars, mainVars, driverVars, factVars>>

InitSpecPal == IdleClient /\ IdleMain /\ IdleDriver /\ IdleFact /\ InitPal

SpecPal == InitSpecPal /\ [][NextPal]_vars

\* ================================================================== claims

\* ------------------------------------------------------------------ C1
\* C1: n pushes on an empty stack followed by n pops: no pop fails, the i-th pop
\* returns the (n-i+1)-th value pushed, and after the n-th pop the stack is empty.
C1_LifoLaw ==
    /\ drv_phase # "failed"
    /\ Len(popped) <= Len(pushed)
    /\ \A i \in 1..Len(popped) : popped[i] = pushed[Len(pushed) - i + 1]
    /\ (drv_phase = "popping" /\ Len(popped) = Len(pushed)) => drv_data = <<>>

C1_Witness ==
    /\ drv_phase = "popping"
    /\ Len(pushed) >= 3
    /\ pushed[1] # pushed[Len(pushed)]
    /\ Len(popped) = Len(pushed)

\* ------------------------------------------------------------------ C2
\* C2: on a stack reached from the empty one by push, pop, top, empty and size
\* calls alone (no move has touched it), size() is the number of push calls
\* minus the number of pop calls that returned a value; size() is never
\* negative, and a failed pop, top(), empty() and size() leave it as it was.
C2_SizeInvariant ==
    /\ ~moved => size(data_) = pushes - pops
    /\ (~moved /\ call.op = "size") => call.count = pushes - pops
    /\ size(data_) >= 0
    /\ (call.op \in {"top", "empty", "size"} \/ call.threw)
            => size(data_) = Len(call.before)

C2_Witness ==
    /\ ~moved
    /\ pushes >= 3
    /\ pops = 2
    /\ call.op = "size"
    /\ call.count = pushes - 2
    /\ prev_call.op = "pop"

\* ------------------------------------------------------------------ C3
\* C3: pop() and top() on an empty stack throw and leave it empty, and a push
\* that follows the failure succeeds.
C3_EmptyFailure ==
    /\ (call.op \in {"pop", "top"} /\ call.before = <<>>)
            => (call.threw /\ data_ = <<>>)
    /\ (call.op = "push" /\ prev_call.threw)
            => (~call.threw /\ data_ = <<call.arg>>)

C3_Witness ==
    /\ pops > 0
    /\ prev_call.op = "pop"
    /\ prev_call.threw
    /\ call.op = "push"
    /\ data_ = <<call.arg>>

\* ------------------------------------------------------------------ C4
\* C4: top() on a non-empty stack returns the last element pushed and not yet
\* popped, which the next pop() would return, changes nothing, and repeated
\* top() calls return the same value.
C4_TopIsPeek ==
    (call.op = "top" /\ call.before # <<>>) =>
        /\ ~call.threw
        /\ call.value = call.before[Len(call.before)]
        /\ data_ = call.before
        /\ pop(data_).value = call.value
        /\ prev_call.op = "push" => call.value = prev_call.arg
        /\ (prev_call.op = "top" /\ ~prev_call.threw) => call.value = prev_call.value

C4_Witness ==
    /\ call.op = "top"
    /\ prev_call.op = "top"
    /\ ~call.threw
    /\ Len(data_) >= 2
    /\ data_[1] # data_[Len(data_)]

\* ------------------------------------------------------------------ C5
\* C5: push is enabled in every state (below the model's cap on push calls),
\* never throws, makes its argument the top, grows size() by one and keeps the
\* elements stored before, in their order.
C5_PushSucceeds ==
    /\ pushes + other_pushes < MaxPushes => ENABLED ClientPush
    /\ call.op = "push" =>
        /\ ~call.threw
        /\ Len(data_) = Len(call.before) + 1
        /\ data_[Len(data_)] = call.arg
        /\ SubSeq(data_, 1, Len(call.before)) = call.before

C5_Witness ==
    /\ call.op = "push"
    /\ Len(call.before) >= 2
    /\ call.before[Len(call.before)] # call.arg

\* ------------------------------------------------------------------ C6
\* The exact product lo * (lo+1) * ... * hi as an unbounded little-endian number
\* in base LimbBase, by halving the range.

RECURSIVE ExactColumn(_, _, _, _)
ExactColumn(a, b, k, i) ==
    IF i > Len(a) \/ i > k THEN 0
    ELSE (IF k + 1 - i <= Len(b) THEN a[i] * b[k + 1 - i] ELSE 0)
         + ExactColumn(a, b, k, i + 1)

RECURSIVE ExactCarry(_, _, _, _)
ExactCarry(a, b, k, carry) ==
    IF k > Len(a) + Len(b) THEN <<>>
    ELSE LET s == ExactColumn(a, b, k, 1) + carry IN
         <<s % LimbBase>> \o ExactCarry(a, b, k + 1, s \div LimbBase)

ExactMul(a, b) == ExactCarry(a, b, 1, 0)

RECURSIVE ExactProduct(_, _)
ExactProduct(lo, hi) ==
    IF lo > hi THEN <<1>>
    ELSE IF lo = hi THEN <<lo % LimbBase, lo \div LimbBase>>
    ELSE LET mid == (lo + hi) \div 2 IN
         ExactMul(ExactProduct(lo, mid), ExactProduct(mid + 1, hi))

\* k! modulo 2^Width: the low NumLimbs limbs of the exact k!.
FactorialMod(k) ==
    LET x == ExactProduct(1, k) IN
    [i \in 1..NumLimbs |-> IF i <= Len(x) THEN x[i] ELSE 0]

\* The natural number a uint64_t below LimbBase^2 stands for.
NatOf(u) == u[1] + LimbBase * u[2]

\* The argument of the call that returned last.
ReturnedArg ==
    IF fact_frames = <<>> THEN NatOf(n)
    ELSE NatOf(fact_frames[Len(fact_frames)]) - 1

\* C6: every call of factorial returns (its argument)! modulo 2^64, the
\* outermost one included; no state of the recursion is stuck; and
\* factorial(0) = 1, factorial(1) = 1, factorial(5) = 120, as values of the
\* recursion run step by step and of the function factorial alike.
C6_FactorialWraps ==
    /\ fact_pc \in {"return", "done"} => fact_ret = FactorialMod(ReturnedArg)
    /\ fact_pc = "done" =>
        /\ fact_frames = <<>>
        /\ NatOf(n) <= 1 => fact_ret = <<1, 0, 0, 0, 0, 0, 0, 0>>
        /\ NatOf(n) = 5 => fact_ret = <<120, 0, 0, 0, 0, 0, 0, 0>>
        /\ NatOf(n) \in {0, 1, 5} => fact_ret = factorial(n)
    /\ fact_pc # "done" => ENABLED (FactEnter \/ FactResume \/ FactDone)

\* 21! = 51090942171709440000 exceeds 2^64 and wraps to 14197454024290336768.
C6_Witness ==
    /\ fact_pc = "done"
    /\ NatOf(n) = 21
    /\ fact_ret = <<0, 0, 196, 184, 54, 125, 7, 197>>

\* ------------------------------------------------------------------ C7
\* The alphanumeric characters of s in order, letters in lower case.
RECURSIVE FoldedAlnum(_)
FoldedAlnum(s) ==
    IF s = <<>> THEN <<>>
    ELSE LET c == Head(s) IN
         (IF c \in 65..90 THEN <<c + 32>>
          ELSE IF c \in (97..122) \cup (48..57) THEN <<c>>
          ELSE <<>>) \o FoldedAlnum(Tail(s))

ReadsSameBothWays(t) == \A i \in 1..Len(t) : t[i] = t[Len(t) + 1 - i]

\* C7: is_palindrome(s) is true exactly when the case-folded alphanumeric
\* characters of s read the same in both directions; so it is true of the empty
\* string, of a string without alphanumeric characters and of "A man a plan a
\* canal Panama", and false of "hello".
C7_PalindromeExact ==
    pal_pc = "done" =>
        /\ pal_ret <=> ReadsSameBothWays(FoldedAlnum(str))
        /\ str = <<>> => pal_ret
        /\ (\A i \in 1..Len(str) :
                str[i] \notin (48..57) \cup (65..90) \cup (97..122)) => pal_ret
        /\ str = PanamaText => pal_ret
        /\ str = HelloText => ~pal_ret

C7_Witness ==
    /\ pal_pc = "done"
    /\ str = PanamaText
    /\ pal_ret

\* ------------------------------------------------------------------ C8
\* What main writes when it runs to its end.
ExpectedOutput ==
    << <<"Stack size: ", 3>>,
       <<"Top element: ", 3>>,
       <<"Popped: ", 3>>,
       <<"Popped: ", 2>>,
       <<"Popped: ", 1>>,
       <<"5! = ", <<120, 0, 0, 0, 0, 0, 0, 0>> >>,
       <<"\"A man a plan a canal Panama\" is ", "", "a palindrome">> >>

\* C8: main reaches its end and returns 0, no exception ends it, the loop is
\* left with the stack empty after exactly three pops, and the output is size 3,
\* top 3, popped 3, 2, 1, 5! = 120 and "is a palindrome".
C8_MainTerminates ==
    /\ <>(pc = "done")
    /\ [](pc # "terminated")
    /\ [](pc = "factorial" => (stack = <<>> /\ Len(out) = 5))
    /\ [](pc = "done" => (exit_code = 0 /\ stack = <<>> /\ out = ExpectedOutput))

C8_Witness ==
    /\ pc = "done"
    /\ exit_code = 0
    /\ Len(out) = 7

\* ------------------------------------------------------------------ C9
\* C9: empty() is true exactly when size() is 0; pop() and top() throw exactly
\* when the stack is empty; a pop() or top() right after empty() returned false
\* does not throw.
C9_GuardSuffices ==
    /\ empty(data_) <=> (size(data_) = 0)
    /\ call.op = "empty" => (call.flag <=> (Len(call.before) = 0))
    /\ call.op \in {"pop", "top"} => (call.threw <=> (Len(call.before) = 0))
    /\ (call.op \in {"pop", "top"} /\ prev_call.op = "empty" /\ ~prev_call.flag)
            => ~call.threw

C9_Witness ==
    /\ prev_call.op = "empty"
    /\ ~prev_call.flag
    /\ call.op = "pop"
    /\ ~call.threw
    /\ data_ = <<>>

\* ------------------------------------------------------------------ C10
\* C10: push(v) followed at once by pop() returns v and leaves the stack as it
\* was before the push; a pop() removes the top element only.
C10_PushPopRoundTrip ==
    /\ (call.op = "pop" /\ prev_call.op = "push") =>
        /\ ~call.threw
        /\ call.value = prev_call.arg
        /\ data_ = prev_call.before
    /\ (call.op = "pop" /\ ~call.threw) => call.before = Append(data_, call.value)

C10_Witness ==
    /\ call.op = "pop"
    /\ prev_call.op = "push"
    /\ Len(data_) >= 2
    /\ data_[Len(data_)] # call.value

====
